---- MODULE Spec2Model ----
(***************************************************************************)
(* A model of rueckenwind's web layer (src/rw/www.py): route compilation   *)
(* over a tree of handler classes, the request dispatcher with its         *)
(* preprocessor futures and parent-climbing error handling, and the        *)
(* static resolver.                                                        *)
(*                                                                         *)
(* Strings are sequences of one-character strings, so that rstrip,         *)
(* startswith, slicing, split and the byte-wise string order of Python 2   *)
(* are computed rather than assumed.                                       *)
(***************************************************************************)
EXTENDS Integers, Sequences, FiniteSets, TLC

(***************************************************************************)
(* Bounds of the model.                                                    *)
(***************************************************************************)
\* handler classes defined in the application module
MaxHandlers == 3
\* mount attributes in the application module
MaxMounts == 2
\* route-annotated methods in the application module
MaxRoutes == 2
\* connections open at a time
MaxRequests == 2
\* activated request_handling plugins
MaxPlugins == 2

(***************************************************************************)
(* Python 2 byte strings.                                                  *)
(***************************************************************************)
\* the characters the model uses, in ASCII order
Chars ==
    <<".", "/", "<", ">", "_", "a", "c", "e", "h", "i", "m", "o", "p", "r", "s", "t", "v", "w", "x">>

Ord(c) ==
    CHOOSE i \in 1..Len(Chars) : Chars[i] = c

\* cmp(a, b) < 0 for two str objects
RECURSIVE StrLess(_, _)
StrLess(a, b) ==
    IF a = <<>> THEN b # <<>>
    ELSE IF b = <<>> THEN FALSE
    ELSE IF Head(a) = Head(b) THEN StrLess(Tail(a), Tail(b))
    ELSE Ord(Head(a)) < Ord(Head(b))

\* s.rstrip('/')
RECURSIVE rstrip(_)
rstrip(s) ==
    IF s # <<>> /\ s[Len(s)] = "/" THEN rstrip(SubSeq(s, 1, Len(s) - 1)) ELSE s

\* s.lstrip('/')
RECURSIVE lstrip(_)
lstrip(s) ==
    IF s # <<>> /\ Head(s) = "/" THEN lstrip(Tail(s)) ELSE s

\* s.strip('/')
strip(s) ==
    lstrip(rstrip(s))

\* s.startswith(p)
startswith(s, p) ==
    Len(s) >= Len(p) /\ SubSeq(s, 1, Len(p)) = p

\* s[n:]
slice_from(s, n) ==
    IF n >= Len(s) THEN <<>> ELSE SubSeq(s, n + 1, Len(s))

\* sub in s, for a non-empty sub
contains(s, sub) ==
    \E i \in 1..Len(s) : i + Len(sub) - 1 <= Len(s) /\ SubSeq(s, i, i + Len(sub) - 1) = sub

\* s.split('/'): the segments between the slashes
RECURSIVE split(_)
split(s) ==
    IF ~contains(s, <<"/">>) THEN <<s>>
    ELSE LET i == CHOOSE k \in 1..Len(s) : s[k] = "/" /\ \A j \in 1..(k - 1) : s[j] # "/"
         IN  <<SubSeq(s, 1, i - 1)>> \o split(slice_from(s, i))

\* s.split('/', 1), for s that holds a slash
split1(s) ==
    LET i == CHOOSE k \in 1..Len(s) : s[k] = "/" /\ \A j \in 1..(k - 1) : s[j] # "/"
    IN  <<SubSeq(s, 1, i - 1), slice_from(s, i)>>

(***************************************************************************)
(* The path literals of the model.                                         *)
(***************************************************************************)
P_empty == <<>>
P_root == <<"/">>
P_view == <<"/", "v", "i", "e", "w">>
P_item == <<"/", "<", "i", "t", "e", "m", ">">>
P_shop == <<"/", "s", "h", "o", "p">>
P_cart == <<"/", "c", "a", "r", "t">>
P_cart_s == <<"/", "c", "a", "r", "t", "/">>
P_static == <<"/", "s", "t", "a", "t", "i", "c">>

(***************************************************************************)
(* Handler classes.  A class is [kind, attrs]: kind names the base class   *)
(* (RequestHandler, a full page handler, or RequestSubHandler); attrs is   *)
(* the sequence of its route-annotated methods and mounts in the order     *)
(* inspect.getmembers lists them (by attribute name), and an attribute's   *)
(* index stands for its name.  A mount names a class defined before the    *)
(* class that holds it, as a class body can only name existing classes.    *)
(***************************************************************************)
VARIABLES
    classes,    \* the handler classes of the application module, in definition order
    phase,      \* "loading" | "serving" | "failed": before, after a successful, after a failed setup()
    root,       \* root_handler of setup(), 0 before setup()
    routes,     \* the routing table of setup(): verb -> list of rules
    tsg,        \* class -> its template_subglobals (root_handler = 0: not set yet)
    DEBUG,      \* rw.DEBUG
    plugins,    \* the activated request_handling plugins, in registration order
    conn,       \* connection -> the request it carries and what handling it did so far
    static      \* the static resolver: handler types, their assets, and its last call

Kinds == {"RequestHandler", "RequestSubHandler"}

\* for req_type in ('get', 'post', 'put', 'delete')
Verbs == <<"get", "post", "put", "delete">>

VerbSet == {Verbs[i] : i \in 1..Len(Verbs)}

\* the decorators: f._rw_route = path, f._rw_route_type = verb
get(path) ==
    [type |-> "route", verb |-> "get", path |-> path, mod |-> 0]

post(path) ==
    [type |-> "route", verb |-> "post", path |-> path, mod |-> 0]

put(path) ==
    [type |-> "route", verb |-> "put", path |-> path, mod |-> 0]

delete(path) ==
    [type |-> "route", verb |-> "delete", path |-> path, mod |-> 0]

\* mount(route, mod)
mount(route, mod) ==
    [type |-> "mount", verb |-> "", path |-> route, mod |-> mod]

\* the local paths and mount prefixes the model's classes are written with
LocalPaths == {P_empty, P_root, P_view, P_item}

MountPaths == {P_shop, P_cart, P_cart_s, P_static}

\* the annotated methods a class body of the model can hold
AnnotatedMethods ==
    {get(p) : p \in LocalPaths} \cup {post(P_root), post(P_view)}

\* the number of attributes of the given type in the module
RECURSIVE CountType(_, _)
CountType(seq, type) ==
    IF seq = <<>> THEN 0
    ELSE Cardinality({k \in 1..Len(Head(seq).attrs) : Head(seq).attrs[k].type = type})
             + CountType(Tail(seq), type)

NoTsg == [main_handler |-> 0, parent_handler |-> 0, root_handler |-> 0]

(***************************************************************************)
(* rw.routing.Rule is not part of the sources at hand: a rule is the       *)
(* record the compiler builds, its order is the order of the pattern       *)
(* strings, and two rules of one list with the same pattern are the        *)
(* configuration error that makes sorting, and with it setup(), fail.      *)
(***************************************************************************)
Rule(path, handler, func_name) ==
    [path |-> path, handler |-> handler, func_name |-> func_name]

rule_lt(a, b) ==
    StrLess(a.path, b.path)

rule_conflict(a, b) ==
    a.path = b.path

\* ret.sort(reverse=True): [ok, ret]; ok is FALSE when comparing raises
RECURSIVE insert_reverse(_, _)
insert_reverse(x, sorted) ==
    IF sorted = <<>> THEN <<x>>
    ELSE IF rule_lt(Head(sorted), x) THEN <<x>> \o sorted
    ELSE <<Head(sorted)>> \o insert_reverse(x, Tail(sorted))

RECURSIVE sorted_reverse(_)
sorted_reverse(ret) ==
    IF ret = <<>> THEN <<>>
    ELSE insert_reverse(Head(ret), sorted_reverse(Tail(ret)))

\* the sort without reverse=True
sort_forward(ret) ==
    [ok  |-> \A i, j \in 1..Len(ret) : i < j => ~rule_conflict(ret[i], ret[j]),
     ret |-> [i \in 1..Len(ret) |-> sorted_reverse(ret)[Len(ret) + 1 - i]]]

sort_reverse(ret) ==
    [ok  |-> \A i, j \in 1..Len(ret) : i < j => ~rule_conflict(ret[i], ret[j]),
     ret |-> sorted_reverse(ret)]

\* the route left as written, but for the empty one
normalize_route_unstripped(prefix, rw_route) ==
    IF prefix \o rw_route = <<>> THEN <<"/">> ELSE prefix \o rw_route

\* the route with one trailing slash removed, not all of them
normalize_route_one_slash(prefix, rw_route) ==
    LET route == prefix \o rw_route
        cut == IF route # <<>> /\ route[Len(route)] = "/"
               THEN SubSeq(route, 1, Len(route) - 1) ELSE route
    IN  IF cut = <<>> THEN <<"/">> ELSE cut

\* route = (prefix + value._rw_route).rstrip('/'); if route == '': route = '/'
normalize_route(prefix, rw_route) ==
    LET route == rstrip(prefix \o rw_route)
    IN  IF route = <<>> THEN <<"/">> ELSE route

\* the mount's own fragment, the prefix of the mounting class dropped
mount_prefix_own(prefix, rw_route) ==
    rw_route

\* route = prefix + value._rw_route, the prefix of a mounted class
mount_prefix(prefix, rw_route) ==
    prefix \o rw_route

(***************************************************************************)
(* _generate_routing: [ok, ret, tsg], threading the template_subglobals    *)
(* the visits write; ok = FALSE is the exception of a failed sort, which   *)
(* nothing catches.                                                        *)
(***************************************************************************)
RECURSIVE _generate_routing(_, _, _, _, _, _, _), visit_members(_, _, _, _, _, _, _, _, _)

\* a variant that takes the annotated methods of every verb
visit_members_any_verb(st, root_, handler, main_handler, req_type, prefix, k, ret, ok) ==
    IF ~ok \/ k > Len(classes[handler].attrs) THEN [ok |-> ok, ret |-> ret, tsg |-> st]
    ELSE LET value == classes[handler].attrs[k]
         IN  IF value.type = "mount"
             THEN LET sub == _generate_routing(st, root_, value.mod, handler, main_handler,
                                               req_type, mount_prefix(prefix, value.path))
                  IN  visit_members(sub.tsg, root_, handler, main_handler, req_type, prefix,
                                    k + 1, ret \o sub.ret, sub.ok)
             ELSE visit_members(st, root_, handler, main_handler, req_type, prefix, k + 1,
                                Append(ret, Rule(normalize_route(prefix, value.path), handler, k)),
                                ok)

visit_members(st, root_, handler, main_handler, req_type, prefix, k, ret, ok) ==
    IF ~ok \/ k > Len(classes[handler].attrs) THEN [ok |-> ok, ret |-> ret, tsg |-> st]
    ELSE LET value == classes[handler].attrs[k]
         IN  IF value.type = "mount"
             THEN LET sub == _generate_routing(st, root_, value.mod, handler, main_handler,
                                               req_type, mount_prefix(prefix, value.path))
                  IN  visit_members(sub.tsg, root_, handler, main_handler, req_type, prefix,
                                    k + 1, ret \o sub.ret, sub.ok)
             ELSE IF value.verb # req_type
             THEN visit_members(st, root_, handler, main_handler, req_type, prefix, k + 1, ret, ok)
             ELSE visit_members(st, root_, handler, main_handler, req_type, prefix, k + 1,
                                Append(ret, Rule(normalize_route(prefix, value.path), handler, k)),
                                ok)

_generate_routing(st, root_, handler, parent, main_handler, req_type, prefix) ==
    LET main == IF classes[handler].kind = "RequestHandler" THEN handler ELSE main_handler
        st1 == [st EXCEPT ![handler] =
                   [main_handler |-> main, parent_handler |-> parent, root_handler |-> root_]]
        r == visit_members(st1, root_, handler, main, req_type, prefix, 1, <<>>, TRUE)
        s == sort_reverse(r.ret)
    IN  IF ~r.ok THEN r
        ELSE [ok |-> s.ok, ret |-> s.ret, tsg |-> r.tsg]

\* generate_routing: the four verbs in turn
RECURSIVE generate_verbs(_, _, _, _, _)
generate_verbs(st, root_, i, ret, ok) ==
    IF ~ok \/ i > Len(Verbs) THEN [ok |-> ok, ret |-> ret, tsg |-> st]
    ELSE LET r == _generate_routing(st, root_, root_, 0, root_, Verbs[i], <<>>)
         IN  generate_verbs(r.tsg, root_, i + 1, [ret EXCEPT ![Verbs[i]] = r.ret], r.ok)

NoRoutes == [v \in VerbSet |-> <<>>]

generate_routing(st, root_) ==
    generate_verbs(st, root_, 1, NoRoutes, TRUE)

(***************************************************************************)
(* Static assets.  The handler types of the static resolver are 1..4, each *)
(* with its list of _parents in declared order; one asset name is looked   *)
(* at, which a handler's module holds as a file under static/ (possibly    *)
(* empty), as a template under templates/static/, or not at all.  Data is  *)
(* a sequence: <<>> the empty string, <<kind, h>> what handler h provides. *)
(***************************************************************************)
StaticHandlers == 1..4

\* the class hierarchies: A = 1 has the parents [B, C] = [2, 3]; B and C have the parent 4
\* or none
Hierarchies ==
    {<<<<2, 3>>, b, c, <<>>>> : b \in {<<>>, <<4>>}, c \in {<<>>, <<4>>}}

RawKinds == {"missing", "empty", "data"}

TemplateKinds == {"missing", "data"}

AssetWorlds ==
    [StaticHandlers -> [raw : RawKinds, tpl : TemplateKinds]]

\* the asset's relative path, the modules www.Main of which can be named before a ':',
\* and the module name of each handler type
F_logo == <<"l", "o", "g", "o">>

F_other_logo == <<"m", "2", ":", "l", "o", "g", "o">>

Mains == [m \in {<<"m", "2">>} |-> 2]

module_name(h) ==
    IF h = 2 THEN <<"m", "2">> ELSE <<"m">>

\* what an IOError of get_content carries: the module of its message 'File not found
\* {module}:{fname}' and its filename; NoError when nothing was raised
NoError == [module |-> <<>>, filename |-> <<>>]

IOError(h, fname) == [module |-> module_name(h), filename |-> fname]

NoStatic ==
    [pc |-> "off", parents |-> <<>>, assets |-> <<>>, op |-> "", handler |-> 0,
     fname |-> <<>>, ok |-> TRUE, kind |-> "None", data |-> <<>>, seen |-> <<>>,
     status |-> 0, md5sum |-> <<>>, url |-> <<>>, error |-> NoError]

\* pkg_resources.resource_string(self.module, 'static/' + fname), after an IOError
\* template_env.get_template('static/' + fname).render(), after another IOError the
\* parents in turn, each with its own get_content, and an IOError when none returned;
\* err is the handler whose get_content raised it (0: none)
RECURSIVE get_content(_, _, _), parents_get_content(_, _, _, _)
get_content(w, h, seen) ==
    IF w.assets[h].raw # "missing"
    THEN [ok |-> TRUE, kind |-> "str",
          data |-> IF w.assets[h].raw = "empty" THEN <<>> ELSE <<"raw", h>>,
          seen |-> Append(seen, h), err |-> 0]
    ELSE IF w.assets[h].tpl # "missing"
    THEN [ok |-> TRUE, kind |-> "str", data |-> <<"tpl", h>>, seen |-> Append(seen, h),
          err |-> 0]
    ELSE parents_get_content(w, h, 1, Append(seen, h))

\* a variant that lets the error of the last parent through
parents_get_content_reraise(w, h, k, seen) ==
    IF k > Len(w.parents[h])
    THEN [ok |-> FALSE, kind |-> "None", data |-> <<>>, seen |-> seen,
          err |-> IF k = 1 THEN h ELSE get_content(w, w.parents[h][k - 1], seen).err]
    ELSE IF get_content(w, w.parents[h][k], seen).ok
    THEN get_content(w, w.parents[h][k], seen)
    ELSE parents_get_content(w, h, k + 1, get_content(w, w.parents[h][k], seen).seen)

parents_get_content(w, h, k, seen) ==
    IF k > Len(w.parents[h])
    THEN [ok |-> FALSE, kind |-> "None", data |-> <<>>, seen |-> seen, err |-> h]
    ELSE IF get_content(w, w.parents[h][k], seen).ok
    THEN get_content(w, w.parents[h][k], seen)
    ELSE parents_get_content(w, h, k + 1, get_content(w, w.parents[h][k], seen).seen)

\* StaticURL.search: the content if there is some, else the list of parents
search(w, h, seen) ==
    LET r == get_content(w, h, seen)
    IN  IF ~r.ok THEN r
        ELSE IF r.data # <<>> THEN r
        ELSE [ok |-> TRUE, kind |-> "list", data |-> w.parents[h], seen |-> r.seen, err |-> 0]

\* Python's truth of what get_content, search and bfs return
truthy(r) ==
    r.kind # "None" /\ r.data # <<>>

\* StaticURL.bfs: the while loop over the deque
RECURSIVE bfs_loop(_, _, _)
bfs_loop(w, queue, last) ==
    IF queue = <<>> THEN last
    ELSE LET r == search(w, Head(queue), last.seen)
         IN  IF ~r.ok \/ r.kind = "str" THEN r
             ELSE bfs_loop(w, Tail(queue) \o r.data, r)

bfs(w, h, seen) ==
    bfs_loop(w, w.parents[h],
             [ok |-> TRUE, kind |-> "None", data |-> <<>>, seen |-> seen, err |-> 0])

\* data = get_content(fname); if not data: data = self.bfs(fname)
resolve(w, h, own) ==
    LET r == get_content(w, own, <<>>)
    IN  IF ~r.ok THEN r
        ELSE IF truthy(r) THEN r
        ELSE bfs(w, h, r.seen)

\* md5(data).hexdigest(): 32 hexadecimal digits, which the model derives from the data
HexDigits ==
    <<"0", "1", "2", "3", "4", "5", "6", "7", "8", "9", "a", "b", "c", "d", "e", "f">>

md5_hexdigest(data) ==
    LET seed == data[2] + (IF data[1] = "raw" THEN 0 ELSE 8)
    IN  [k \in 1..32 |-> HexDigits[((k * 7 + seed * 3) % 16) + 1]]

\* a variant of the slice that keeps the whole digest
whole_digest(md5sum) ==
    md5sum

\* md5sum[:5]
first_five(md5sum) ==
    SubSeq(md5sum, 1, IF Len(md5sum) < 5 THEN Len(md5sum) ELSE 5)

\* StaticObject.__new__: the url; md5sum <<>> is None
StaticObject(module, fname, md5sum) ==
    <<"/", "s", "t", "a", "t", "i", "c", "/">> \o module \o <<"/">> \o fname
        \o (IF md5sum # <<>> THEN <<"?", "v", "=">> \o first_five(md5sum)
            ELSE <<"?", "v", "=", "E", "R", "R">>)

\* index of the first ':' of a name, 0 if there is none
colon(name) ==
    IF \E n \in 1..Len(name) : name[n] = ":"
    THEN CHOOSE n \in 1..Len(name) : name[n] = ":" /\ \A m \in 1..(n - 1) : name[m] # ":"
    ELSE 0

\* StaticURL.__call__ of handler h: the url, or the IOError of get_content or bfs
static_url(w, h, name) ==
    LET own == IF colon(name) # 0 THEN Mains[SubSeq(name, 1, colon(name) - 1)] ELSE h
        module == IF colon(name) # 0 THEN SubSeq(name, 1, colon(name) - 1) ELSE module_name(h)
        fname == SubSeq(name, colon(name) + 1, Len(name))
        r == resolve(w, h, own)
        md5sum == IF truthy(r) THEN md5_hexdigest(r.data) ELSE <<>>
    IN  [w EXCEPT !.pc = "done", !.op = "url", !.handler = h, !.fname = name,
                  !.ok = r.ok, !.kind = r.kind, !.data = r.data, !.seen = r.seen,
                  !.status = 0,
                  !.md5sum = IF r.ok THEN md5sum ELSE <<>>,
                  !.url = IF r.ok THEN StaticObject(module, fname, md5sum) ELSE <<>>,
                  !.error = IF r.ok THEN NoError ELSE IOError(r.err, fname)]

\* StaticFileHandler.get of handler h for a path without '..': the data is written
\* (200), HTTPError(404) is raised, or the IOError ends the request with 500
static_get(w, h, name) ==
    LET r == resolve(w, h, h)
    IN  [w EXCEPT !.pc = "done", !.op = "get", !.handler = h, !.fname = name,
                  !.ok = r.ok, !.kind = r.kind, !.data = r.data, !.seen = r.seen,
                  !.status = IF ~r.ok THEN 500 ELSE IF truthy(r) THEN 200 ELSE 404,
                  !.md5sum = <<>>, !.url = <<>>,
                  !.error = IF r.ok THEN NoError ELSE IOError(r.err, name)]

\* a template calls static(name)
StaticUrl(h, name) ==
    /\ static.pc = "idle"
    /\ static' = static_url(static, h, name)
    /\ UNCHANGED <<classes, phase, root, routes, tsg, DEBUG, plugins, conn>>

\* a request for the asset reaches the handler's StaticFileHandler
StaticGet(h) ==
    /\ static.pc = "idle"
    /\ static' = static_get(static, h, F_logo)
    /\ UNCHANGED <<classes, phase, root, routes, tsg, DEBUG, plugins, conn>>

\* the call is over
StaticReturn ==
    /\ static.pc = "done"
    /\ static' = [NoStatic EXCEPT !.pc = "idle", !.parents = static.parents,
                                  !.assets = static.assets]
    /\ UNCHANGED <<classes, phase, root, routes, tsg, DEBUG, plugins, conn>>

(***************************************************************************)
(* Connections.  A connection carries one request at a time; what the      *)
(* handling of the request did is kept as a log of events.  rw_DEBUG is    *)
(* the value of rw.DEBUG that the handling of the request reads.           *)
(***************************************************************************)
Requests == 1..MaxRequests

NoTarget == [inst |-> 0, func_name |-> 0, arguments |-> {}, rule |-> 0]

Idle ==
    [pc |-> "idle", method |-> "", path |-> <<>>, original_path |-> <<>>, query |-> "",
     insts |-> <<>>, futures |-> <<>>, target |-> NoTarget, log |-> <<>>, rw_DEBUG |-> TRUE]

(***************************************************************************)
(* Loading the application module and setup().                             *)
(***************************************************************************)
\* a class statement: RequestHandlerMeta / RequestSubHandlerMeta build the class
DefineClass(kind) ==
    /\ phase = "loading"
    /\ Len(classes) < MaxHandlers
    /\ classes' = Append(classes, [kind |-> kind, attrs |-> <<>>])
    /\ tsg' = Append(tsg, NoTsg)
    /\ UNCHANGED <<phase, root, routes, DEBUG, plugins, conn, static>>

\* a decorated method in the body of the class being defined:
\* @get(path), @post(path), @put(path) or @delete(path)
Annotate(method) ==
    /\ phase = "loading"
    /\ classes # <<>>
    /\ CountType(classes, "route") < MaxRoutes
    /\ classes' = [classes EXCEPT ![Len(classes)].attrs = Append(@, method)]
    /\ UNCHANGED <<phase, root, routes, tsg, DEBUG, plugins, conn, static>>

\* name = mount(route, mod) in the body of the class being defined
Mount(route, mod) ==
    /\ phase = "loading"
    /\ mod \in 1..(Len(classes) - 1)
    /\ CountType(classes, "mount") < MaxMounts
    /\ classes' = [classes EXCEPT ![Len(classes)].attrs = Append(@, mount(route, mod))]
    /\ UNCHANGED <<phase, root, routes, tsg, DEBUG, plugins, conn, static>>

\* setup(app_name): the root is the module's Main, the class its body ends with
Setup ==
    /\ phase = "loading"
    /\ Len(classes) >= 1
    /\ classes[Len(classes)].kind = "RequestHandler"
    /\ LET r == generate_routing(tsg, Len(classes))
       IN  /\ root' = Len(classes)
           /\ tsg' = r.tsg
           /\ phase' = IF r.ok THEN "serving" ELSE "failed"
           /\ routes' = IF r.ok THEN r.ret ELSE NoRoutes
    /\ UNCHANGED <<classes, DEBUG, plugins, conn, static>>

vars == <<classes, phase, root, routes, tsg, DEBUG, plugins, conn, static>>

InitRoutes ==
    /\ classes = <<>>
    /\ phase = "loading"
    /\ root = 0
    /\ routes = NoRoutes
    /\ tsg = <<>>
    /\ DEBUG = TRUE
    /\ plugins = <<>>
    /\ conn = [r \in Requests |-> Idle]
    /\ static = NoStatic

NextRoutes ==
    \/ \E kind \in Kinds : DefineClass(kind)
    \/ \E method \in AnnotatedMethods : Annotate(method)
    \/ \E route \in MountPaths, mod \in 1..MaxHandlers : Mount(route, mod)
    \/ Setup

SpecRoutes == InitRoutes /\ [][NextRoutes]_vars

(***************************************************************************)
(* Handler instances.  HandlerBase is a dict: the request's scratch space. *)
(* An instance is [cls, scratch, finished]; scratch values are pairs of a  *)
(* tag and a number.                                                       *)
(***************************************************************************)
None == <<"None", 0>>

ClassRef(c) ==
    IF c = 0 THEN None ELSE <<"class", c>>

Event(ev, inst, cls, status, func, keys, note) ==
    [ev |-> ev, inst |-> inst, cls |-> cls, status |-> status, func |-> func,
     keys |-> keys, note |-> note]

Logged(c, e) ==
    [c EXCEPT !.log = Append(@, e)]

\* HandlerBase.__init__: the entries a new instance starts with
handler_init(cls, i) ==
    [k \in {"handler", "_translation", "_locale", "main_handler", "parent_handler",
            "root_handler"} |->
        IF k = "handler" THEN <<"instance", i>>
        ELSE IF k = "_translation" THEN <<"Translations", 0>>
        ELSE IF k = "_locale" THEN <<"Locale", 0>>
        ELSE IF k = "main_handler" THEN ClassRef(tsg[cls].main_handler)
        ELSE IF k = "parent_handler" THEN ClassRef(tsg[cls].parent_handler)
        ELSE ClassRef(tsg[cls].root_handler)]

\* handler(self, request): a new instance of the class, for this request
new_handler(c, cls, note) ==
    LET i == Len(c.insts) + 1
    IN  [c EXCEPT !.insts = Append(@, [cls |-> cls, scratch |-> handler_init(cls, i),
                                       finished |-> FALSE]),
                  !.log = Append(@, Event("init", i, cls, 0, 0, {}, note))]

\* self[key] = value
setitem(c, i, key, value) ==
    [c EXCEPT !.insts[i].scratch =
        [k \in (DOMAIN @) \cup {key} |-> IF k = key THEN value ELSE @[k]]]

\* HandlerBase.finish: the response is written; outside debug mode the dict is cleared
finish(c, i, status, note) ==
    [c EXCEPT !.insts[i].finished = TRUE,
              !.insts[i].scratch = IF c.rw_DEBUG THEN @ ELSE [k \in {} |-> None],
              !.log = Append(@, Event("finish", i, c.insts[i].cls, status, 0,
                                      DOMAIN c.insts[i].scratch, note))]

\* tornado's RequestHandler.send_error on an unfinished handler: the error page
tornado_send_error(c, i, status_code) ==
    finish(c, i, status_code, "error")

\* HandlerBase.on_error; Python gives up (RuntimeError) at its recursion limit, the model
\* when more instances were made than there are classes
RECURSIVE on_error(_, _, _, _)

\* a variant that climbs to the handler's own type
on_error_same_type(c, i, status_code, fuel) ==
    LET self == c.insts[i]
        c0 == Logged(c, Event("on_error", i, self.cls, status_code, 0, DOMAIN self.scratch, ""))
    IN  IF fuel = 0
        THEN Logged(c0, Event("recursion_limit", i, self.cls, status_code, 0, {}, ""))
        ELSE on_error(new_handler(c0, self.cls, "parent"), Len(c0.insts) + 1, status_code,
                      fuel - 1)

\* a variant in which the child's entries replace the parent's
on_error_child_wins(c, i, status_code, fuel) ==
    LET self == c.insts[i]
        c0 == Logged(c, Event("on_error", i, self.cls, status_code, 0, DOMAIN self.scratch, ""))
    IN  IF self.scratch["parent_handler"] # None
           /\ self.scratch["parent_handler"] # ClassRef(self.cls)
        THEN LET c1 == new_handler(c0, self.scratch["parent_handler"][2], "parent")
                 j == Len(c1.insts)
                 parent == c1.insts[j].scratch
                 merged == [k \in (DOMAIN parent) \cup (DOMAIN self.scratch) |->
                               IF k \in DOMAIN self.scratch THEN self.scratch[k] ELSE parent[k]]
             IN  tornado_send_error([c1 EXCEPT !.insts[j].scratch = merged], j, status_code)
        ELSE tornado_send_error(c0, i, status_code)

on_error(c, i, status_code, fuel) ==
    LET self == c.insts[i]
        c0 == Logged(c, Event("on_error", i, self.cls, status_code, 0, DOMAIN self.scratch, ""))
    IN  IF "parent_handler" \notin DOMAIN self.scratch
        THEN Logged(c0, Event("KeyError", i, self.cls, status_code, 0, {}, ""))
        ELSE IF self.scratch["parent_handler"] # None
                /\ self.scratch["parent_handler"] # ClassRef(self.cls)
        THEN IF fuel = 0
             THEN Logged(c0, Event("recursion_limit", i, self.cls, status_code, 0, {}, ""))
             ELSE LET c1 == new_handler(c0, self.scratch["parent_handler"][2], "parent")
                      j == Len(c1.insts)
                      parent == c1.insts[j].scratch
                      merged == [k \in (DOMAIN parent) \cup (DOMAIN self.scratch) |->
                                    IF k \in DOMAIN parent THEN parent[k] ELSE self.scratch[k]]
                  IN  on_error([c1 EXCEPT !.insts[j].scratch = merged], j, status_code, fuel - 1)
        ELSE tornado_send_error(c0, i, status_code)

\* HandlerBase.send_error; exc_info is "none", "HTTPError" or "Exception"
send_error(c, i, status_code, exc_info) ==
    IF c.insts[i].finished
    THEN Logged(c, Event("handle_callback_exception", i, c.insts[i].cls, status_code, 0, {}, ""))
    ELSE IF exc_info # "none"
    THEN IF exc_info = "HTTPError"
         THEN on_error(c, i, status_code, Len(classes))
         ELSE LET c1 == Logged(c, Event("handle_callback_exception", i, c.insts[i].cls,
                                        status_code, 0, {}, ""))
              IN  IF c.rw_DEBUG
                  THEN finish(c1, i, status_code, "traceback")
                  ELSE on_error(c1, i, 500, Len(classes))
    ELSE on_error(c, i, status_code, Len(classes))

\* handler._stack_context_handle_exception, the handler of the ExceptionStackContext:
\* tornado sends the HTTPError's status (the model's methods raise HTTPError(403)), or 500
handle_exception(c, i, exc) ==
    IF exc = "HTTPError" THEN send_error(c, i, 403, "HTTPError")
    ELSE send_error(c, i, 500, "Exception")

(***************************************************************************)
(* The preprocessor plugins (rbus.rw.request_handling).  A plugin's        *)
(* pre_process writes an entry (as login_google's does), returns a Future  *)
(* whose computation writes the entry when it completes, or raises.        *)
(***************************************************************************)
PluginPool ==
    {[kind |-> "sync", key |-> "email"], [kind |-> "async", key |-> "user"],
     [kind |-> "async", key |-> "session"], [kind |-> "raise", key |-> ""]}

PluginLists ==
    UNION {[1..n -> PluginPool] : n \in 0..MaxPlugins}

\* rbus.rw.request_handling.pre_process(handler): [c, raised]
RECURSIVE run_plugins(_, _, _)
run_plugins(c, i, k) ==
    IF k > Len(plugins) THEN [c |-> c, raised |-> FALSE]
    ELSE IF plugins[k].kind = "sync"
    THEN run_plugins(Logged(setitem(c, i, plugins[k].key, <<"plugin", k>>),
                            Event("step", i, c.insts[i].cls, 0, k, {}, "sync")), i, k + 1)
    ELSE IF plugins[k].kind = "async"
    THEN run_plugins([c EXCEPT !.futures = Append(@, [plugin |-> k, state |-> "pending"])],
                     i, k + 1)
    ELSE [c |-> Logged(c, Event("step", i, c.insts[i].cls, 0, k, {}, "raise")), raised |-> TRUE]

\* a variant in which the bus is asked twice
pre_process_twice(c, i) ==
    LET e == Event("pre_process", i, c.insts[i].cls, 0, 0, {}, "")
    IN  run_plugins(Logged(Logged(c, e), e), i, 1)

pre_process(c, i) ==
    run_plugins(Logged(c, Event("pre_process", i, c.insts[i].cls, 0, 0, {}, "")), i, 1)

\* getattr(self.handler, self.func_name)(**self.arguments); the method finishes the
\* response, raises HTTPError or another exception, or raises after finishing
MethodOutcomes == {"finish", "HTTPError", "Exception", "finish_raise"}

\* the method raises exc: what the scratch space holds at that moment is noted
raised(c, i, exc) ==
    Logged(c, Event("raise", i, c.insts[i].cls, 0, c.target.func_name,
                    DOMAIN c.insts[i].scratch, exc))

invoke(c, outcome) ==
    LET i == c.target.inst
        c1 == Logged(c, Event("invoke", i, c.insts[i].cls, 0, c.target.func_name,
                              DOMAIN c.insts[i].scratch, ""))
    IN  IF outcome = "finish" THEN finish(c1, i, 200, "page")
        ELSE IF outcome = "finish_raise"
        THEN handle_exception(raised(finish(c1, i, 200, "page"), i, "Exception"), i, "Exception")
        ELSE handle_exception(raised(c1, i, outcome), i, outcome)

\* ExecuteHandler.__call__ up to its yield: with a Future among the results the call is
\* suspended, without one the method is called at once
\* a variant that does not wait for the Futures
execute_handler_no_wait(c, outcome) ==
    invoke(c, outcome)

execute_handler(c, outcome) ==
    IF c.futures # <<>> THEN [c EXCEPT !.pc = "waiting"] ELSE invoke(c, outcome)

(***************************************************************************)
(* Rule.match (rw.routing, not among the sources at hand): a pattern       *)
(* matches a path segment by segment, a <name> segment matching any        *)
(* non-empty segment and binding it.                                       *)
(***************************************************************************)
is_variable(seg) ==
    Len(seg) >= 2 /\ seg[1] = "<" /\ seg[Len(seg)] = ">"

rule_match(rule, path) ==
    LET ps == split(rule.path)
        qs == split(path)
        ok == /\ Len(ps) = Len(qs)
              /\ \A n \in 1..Len(ps) :
                     IF is_variable(ps[n]) THEN qs[n] # <<>> ELSE ps[n] = qs[n]
    IN  [ok |-> ok,
         arguments |-> IF ok
                       THEN {<<ps[n], qs[n]>> : n \in {m \in 1..Len(ps) : is_variable(ps[m])}}
                       ELSE {}]

(***************************************************************************)
(* Application.__call__                                                    *)
(***************************************************************************)
S_static == <<"/", "s", "t", "a", "t", "i", "c", "/">>
S_plugin == <<"/", "_", "p", "/">>

\* the modules in sys.modules that have a www.Main, the static files they ship, and the
\* names of the activated rw.www plugins
sys_modules == {<<"m">>}

static_files == {<<"x">>}

PLUGS == {<<"p">>}

\* request.path = request.path.rstrip('/'); if request.path == '': request.path = '/'
normalize_path(path) ==
    IF rstrip(path) = <<>> THEN <<"/">> ELSE rstrip(path)

\* for rule in routes[...]: match = rule.match(request); if match: ... break
RECURSIVE scan_rules(_, _, _)

\* a variant that takes the last rule that matches
scan_rules_last(rules, path, k) ==
    IF k > Len(rules) THEN 0
    ELSE IF scan_rules(rules, path, k + 1) # 0 THEN scan_rules(rules, path, k + 1)
    ELSE IF rule_match(rules[k], path).ok THEN k
    ELSE 0

scan_rules(rules, path, k) ==
    IF k > Len(rules) THEN 0
    ELSE IF rule_match(rules[k], path).ok THEN k
    ELSE scan_rules(rules, path, k + 1)

\* the "normal" request: [c, found, crashed]
normal_request(c, outcome) ==
    LET path == normalize_path(c.path)
        c1 == [c EXCEPT !.path = path]
        k == scan_rules(routes[c.method], path, 1)
    IN  IF k = 0 THEN [c |-> c1, found |-> FALSE, crashed |-> FALSE]
        ELSE LET rule == routes[c.method][k]
                 c2 == new_handler(c1, rule.handler, "route")
                 i == Len(c2.insts)
                 c3 == [c2 EXCEPT !.target = [inst |-> i, func_name |-> rule.func_name,
                                              arguments |-> rule_match(rule, path).arguments,
                                              rule |-> k]]
                 pp == pre_process(c3, i)
             IN  [c |-> IF pp.raised THEN handle_exception(pp.c, i, "Exception")
                        ELSE execute_handler(pp.c, outcome),
                  found |-> TRUE, crashed |-> FALSE]

\* a variant that reads the content before it looks at the path
static_file_handler_late_check(c, module) ==
    IF c.method # "get"
    THEN Logged(c, Event("static", 0, 0, 405, 0, {}, ""))
    ELSE LET c1 == Logged(c, Event("get_content", 0, 0, 0, 0, {}, ""))
         IN  IF contains(c.path, <<".", ".">>)
             THEN Logged(c1, Event("static", 0, 0, 403, 0, {}, ""))
             ELSE IF c.path \in static_files
             THEN Logged(Logged(c1, Event("write", 0, 0, 0, 0, {}, "")),
                         Event("static", 0, 0, 200, 0, {}, ""))
             ELSE Logged(c1, Event("static", 0, 0, 500, 0, {}, ""))

\* handler._execute([]) of the StaticFileHandler of a module whose Main has no parents.
\* The class defines get only, so that another verb ends in the 405 of
\* tornado.web.RequestHandler.  get: HTTPError(403) for a path with '..'; else
\* get_content is called, and the file's content is written or the IOError of
\* get_content ends the request (tornado answers it with 500)
static_file_handler(c, module) ==
    IF c.method # "get"
    THEN Logged(c, Event("static", 0, 0, 405, 0, {}, ""))
    ELSE IF contains(c.path, <<".", ".">>)
    THEN Logged(c, Event("static", 0, 0, 403, 0, {}, ""))
    ELSE LET c1 == Logged(c, Event("get_content", 0, 0, 0, 0, {}, ""))
         IN  IF c.path \in static_files
             THEN Logged(Logged(c1, Event("write", 0, 0, 0, 0, {}, "")),
                         Event("static", 0, 0, 200, 0, {}, ""))
             ELSE Logged(c1, Event("static", 0, 0, 500, 0, {}, ""))

\* the /static/ branch; urllib.unquote changes nothing as no model path holds a '%'
static_request(c) ==
    LET path == strip(slice_from(c.path, 8))
    IN  IF contains(path, <<"/">>)
        THEN LET c1 == [c EXCEPT !.path = split1(path)[2]]
             IN  IF split1(path)[1] \in sys_modules
                 THEN [c |-> static_file_handler(c1, split1(path)[1]), found |-> TRUE,
                       crashed |-> FALSE]
                 ELSE [c |-> c1, found |-> FALSE, crashed |-> FALSE]
        ELSE [c |-> c, found |-> FALSE, crashed |-> FALSE]

\* WebSocketHandler._handle_request: self._execute([]), and nothing is returned
_handle_request(c) ==
    [c |-> Logged(c, Event("plugin", 0, 0, 0, 0, {}, "")), ret |-> FALSE]

\* the /_p/ branch; split('/', 1) of a rest without a slash cannot be unpacked (ValueError)
plugin_request(c) ==
    LET path == slice_from(c.path, 4)
    IN  IF ~contains(path, <<"/">>)
        THEN [c |-> Logged(c, Event("ValueError", 0, 0, 0, 0, {}, "")), found |-> FALSE,
              crashed |-> TRUE]
        ELSE IF split1(path)[1] \in PLUGS
        THEN LET h == _handle_request([c EXCEPT !.path = <<"/">> \o split1(path)[2]])
             IN  [c |-> h.c, found |-> h.ret, crashed |-> FALSE]
        ELSE [c |-> c, found |-> FALSE, crashed |-> FALSE]

\* '__debugger__' in request.uri
uri_has_debugger(c) ==
    c.query = "__debugger__=yes"

\* a variant that answers through the first class of the module
not_found_by_first(c) ==
    LET c1 == new_handler(c, 1, "not_found")
    IN  send_error(c1, Len(c1.insts), 404, "none")

\* self.base(self, request).send_error(404)
not_found(c) ==
    LET c1 == new_handler(c, root, "not_found")
    IN  send_error(c1, Len(c1.insts), 404, "none")

\* Application.__call__, up to its end or to the yield of ExecuteHandler
call(c, outcome) ==
    LET r == IF c.rw_DEBUG /\ uri_has_debugger(c)
             THEN [c |-> Logged(c, Event("debugger", 0, 0, 0, 0, {}, "")), found |-> TRUE,
                   crashed |-> FALSE]
             ELSE IF startswith(c.path, S_static) THEN static_request(c)
             ELSE IF startswith(c.path, S_plugin) THEN plugin_request(c)
             ELSE normal_request(c, outcome)
        c1 == IF r.crashed \/ r.found THEN r.c ELSE not_found(r.c)
    IN  IF c1.pc = "waiting" THEN c1 ELSE [c1 EXCEPT !.pc = "done"]

(***************************************************************************)
(* Serving requests.                                                       *)
(***************************************************************************)
\* the request paths of the model
Q_empty == <<>>
Q_root == <<"/">>
Q_root2 == <<"/", "/">>
Q_view == <<"/", "v", "i", "e", "w">>
Q_view1 == <<"/", "v", "i", "e", "w", "/">>
Q_view2 == <<"/", "v", "i", "e", "w", "/", "/">>
Q_shop_cart == <<"/", "s", "h", "o", "p", "/", "c", "a", "r", "t">>
Q_shop_cart_view == <<"/", "s", "h", "o", "p", "/", "c", "a", "r", "t", "/", "v", "i", "e", "w">>
Q_shop_cart_view1 ==
    <<"/", "s", "h", "o", "p", "/", "c", "a", "r", "t", "/", "v", "i", "e", "w", "/">>
Q_cart_view == <<"/", "c", "a", "r", "t", "/", "v", "i", "e", "w">>
Q_static == <<"/", "s", "t", "a", "t", "i", "c">>
Q_static1 == <<"/", "s", "t", "a", "t", "i", "c", "/">>
Q_static_m_x == <<"/", "s", "t", "a", "t", "i", "c", "/", "m", "/", "x">>
Q_static_m_dots == <<"/", "s", "t", "a", "t", "i", "c", "/", "m", "/", ".", ".", "/", "x">>
Q_static_m_w == <<"/", "s", "t", "a", "t", "i", "c", "/", "m", "/", "w">>
Q_static_x_x == <<"/", "s", "t", "a", "t", "i", "c", "/", "x", "/", "x">>
Q_p == <<"/", "_", "p">>
Q_p1 == <<"/", "_", "p", "/">>
Q_p_p_x == <<"/", "_", "p", "/", "p", "/", "x">>
Q_p_x_x == <<"/", "_", "p", "/", "x", "/", "x">>

RequestPaths ==
    {Q_empty, Q_root, Q_root2, Q_view, Q_view1, Q_view2, Q_shop_cart, Q_shop_cart_view,
     Q_shop_cart_view1, Q_cart_view, Q_static, Q_static1, Q_static_m_x, Q_static_m_dots,
     Q_static_m_w, Q_static_x_x, Q_p, Q_p1, Q_p_p_x, Q_p_x_x}

\* the request methods of the model
RequestMethods == {"get", "post"}

\* the query strings of the model: the debugger's only with two of the paths
Queries(path) ==
    IF path \in {Q_root, Q_view} THEN {"", "__debugger__=yes"} ELSE {""}

\* a variant that takes the first rule off the verb's list while it dispatches
Call_consuming(r, method, path, query, outcome) ==
    /\ phase = "serving"
    /\ conn[r].pc = "idle"
    /\ conn' = [conn EXCEPT ![r] =
                   call([Idle EXCEPT !.pc = "running", !.method = method, !.path = path,
                                     !.original_path = path, !.query = query,
                                     !.rw_DEBUG = DEBUG], outcome)]
    /\ routes' = [routes EXCEPT ![method] = IF @ = <<>> THEN @ ELSE Tail(@)]
    /\ UNCHANGED <<classes, phase, root, tsg, DEBUG, plugins, static>>

\* a request arrives on an idle connection: Application.__call__
Call(r, method, path, query, outcome) ==
    /\ phase = "serving"
    /\ conn[r].pc = "idle"
    /\ conn' = [conn EXCEPT ![r] =
                   call([Idle EXCEPT !.pc = "running", !.method = method, !.path = path,
                                     !.original_path = path, !.query = query,
                                     !.rw_DEBUG = DEBUG], outcome)]
    /\ UNCHANGED <<classes, phase, root, routes, tsg, DEBUG, plugins, static>>

\* a variant in which the entry is written into the scratch space of every request
\* that waits for a Future
FutureDone_shared(r, k, ok) ==
    /\ conn[r].pc = "waiting"
    /\ k \in 1..Len(conn[r].futures)
    /\ conn[r].futures[k].state = "pending"
    /\ conn' = [q \in Requests |->
                   IF q = r
                   THEN Logged(setitem([conn[q] EXCEPT !.futures[k].state = "done"],
                                       conn[q].target.inst,
                                       plugins[conn[q].futures[k].plugin].key, <<"plugin", k>>),
                               Event("step", conn[q].target.inst, 0, 0,
                                     conn[q].futures[k].plugin, {}, "async"))
                   ELSE IF conn[q].pc = "waiting"
                   THEN setitem(conn[q], conn[q].target.inst,
                                plugins[conn[r].futures[k].plugin].key, <<"plugin", k>>)
                   ELSE conn[q]]
    /\ UNCHANGED <<classes, phase, root, routes, tsg, DEBUG, plugins, static>>

\* the computation behind a pending Future completes: it writes its entry, or it fails
FutureDone(r, k, ok) ==
    /\ conn[r].pc = "waiting"
    /\ k \in 1..Len(conn[r].futures)
    /\ conn[r].futures[k].state = "pending"
    /\ LET c == conn[r]
           i == c.target.inst
           pl == c.futures[k].plugin
           c1 == [c EXCEPT !.futures[k].state = IF ok THEN "done" ELSE "failed"]
       IN  conn' = [conn EXCEPT ![r] =
                       IF ok
                       THEN Logged(setitem(c1, i, plugins[pl].key, <<"plugin", pl>>),
                                   Event("step", i, c.insts[i].cls, 0, pl, {}, "async"))
                       ELSE Logged(c1, Event("step", i, c.insts[i].cls, 0, pl, {}, "failed"))]
    /\ UNCHANGED <<classes, phase, root, routes, tsg, DEBUG, plugins, static>>

\* ExecuteHandler.__call__ after its yield: every Future is done; the failure of one is
\* raised, else the method is called
Resume(r, outcome) ==
    /\ conn[r].pc = "waiting"
    /\ \A k \in 1..Len(conn[r].futures) : conn[r].futures[k].state # "pending"
    /\ LET c == conn[r]
           c1 == IF \E k \in 1..Len(c.futures) : c.futures[k].state = "failed"
                 THEN handle_exception(c, c.target.inst, "Exception")
                 ELSE invoke(c, outcome)
       IN  conn' = [conn EXCEPT ![r] = [c1 EXCEPT !.pc = "done"]]
    /\ UNCHANGED <<classes, phase, root, routes, tsg, DEBUG, plugins, static>>

\* the request is over and the connection takes the next one
Close(r) ==
    /\ conn[r].pc = "done"
    /\ conn' = [conn EXCEPT ![r] = Idle]
    /\ UNCHANGED <<classes, phase, root, routes, tsg, DEBUG, plugins, static>>

(***************************************************************************)
(* The application modules the dispatcher is run on: the shop, whose Main  *)
(* (class 3) mounts X (class 2) at /shop and X mounts Y (class 1) at       *)
(* /cart, in variants of the classes' kinds and methods.                   *)
(***************************************************************************)
ShopModules ==
    {<<[kind |-> ky, attrs |-> y], [kind |-> kx, attrs |-> x],
       [kind |-> "RequestHandler", attrs |-> main]>> :
        ky \in Kinds, kx \in Kinds,
        y \in {<<get(P_view)>>, <<get(P_empty), post(P_view)>>},
        x \in {<<get(P_item), mount(P_cart, 1)>>},
        main \in {<<get(P_root), mount(P_shop, 2)>>,
                  <<get(P_item), get(P_view), mount(P_shop, 2)>>}}

\* the module is loaded and setup() has not run yet
Init ==
    /\ classes \in ShopModules
    /\ root = 0
    /\ routes = NoRoutes
    /\ tsg = <<NoTsg, NoTsg, NoTsg>>
    /\ phase = "loading"
    /\ DEBUG \in BOOLEAN
    /\ plugins \in PluginLists
    /\ conn = [r \in Requests |-> Idle]
    /\ static = NoStatic

ServeRequest(r) ==
    \/ \E method \in RequestMethods, path \in RequestPaths, outcome \in MethodOutcomes :
           \E query \in Queries(path) : Call(r, method, path, query, outcome)
    \/ \E k \in 1..MaxPlugins, ok \in BOOLEAN : FutureDone(r, k, ok)
    \/ \E outcome \in MethodOutcomes : Resume(r, outcome)
    \/ Close(r)

\* one connection
Next ==
    \/ Setup
    \/ ServeRequest(1)

Spec == Init /\ [][Next]_vars

(***************************************************************************)
(* Requests in flight at the same time: every connection serves requests,  *)
(* the steps of different requests interleave at the yield of              *)
(* ExecuteHandler.  The module is the shop with page handlers.             *)
(***************************************************************************)
ConcModules ==
    {m \in ShopModules : \A h \in 1..Len(m) : m[h].kind = "RequestHandler"}

ConcPlugins ==
    {<<[kind |-> "async", key |-> "user"]>>,
     <<[kind |-> "sync", key |-> "email"], [kind |-> "async", key |-> "user"]>>}

InitConc ==
    /\ classes \in ConcModules
    /\ root = 0
    /\ routes = NoRoutes
    /\ tsg = <<NoTsg, NoTsg, NoTsg>>
    /\ phase = "loading"
    /\ DEBUG \in BOOLEAN
    /\ plugins \in ConcPlugins
    /\ conn = [r \in Requests |-> Idle]
    /\ static = NoStatic

NextConc ==
    \/ Setup
    \/ \E r \in Requests : ServeRequest(r)

SpecConc == InitConc /\ [][NextConc]_vars

(***************************************************************************)
(* The static resolver on its own: the application of the routing part is  *)
(* not loaded, the handler types of the resolver and their assets are      *)
(* fixed at the start, and templates and requests call the resolver.       *)
(***************************************************************************)
InitStatic ==
    /\ classes = <<>>
    /\ phase = "loading"
    /\ root = 0
    /\ routes = NoRoutes
    /\ tsg = <<>>
    /\ DEBUG = TRUE
    /\ plugins = <<>>
    /\ conn = [r \in Requests |-> Idle]
    /\ \E parents \in Hierarchies, assets \in AssetWorlds :
           static = [NoStatic EXCEPT !.pc = "idle", !.parents = parents, !.assets = assets]

NextStatic ==
    \/ \E h \in StaticHandlers, name \in {F_logo, F_other_logo} : StaticUrl(h, name)
    \/ \E h \in StaticHandlers : StaticGet(h)
    \/ StaticReturn

SpecStatic == InitStatic /\ [][NextStatic]_vars

(***************************************************************************)
(* What the claims speak of: the places of the mount tree, written as a    *)
(* set of mount chains rather than as the compiler's recursion.            *)
(***************************************************************************)
AttrsOfType(h, type) ==
    {k \in 1..Len(classes[h].attrs) : classes[h].attrs[k].type = type}

\* the places reached from the given places by one more mount
MountStep(S) ==
    UNION {{[handler |-> classes[x.handler].attrs[k].mod,
             frags   |-> x.frags \o classes[x.handler].attrs[k].path,
             chain   |-> Append(x.chain, k),
             via     |-> Append(x.via, x.handler)] : k \in AttrsOfType(x.handler, "mount")}
           : x \in S}

RECURSIVE PlacesWithin(_)
PlacesWithin(d) ==
    IF d = 0 THEN {[handler |-> root, frags |-> <<>>, chain |-> <<>>, via |-> <<>>]}
    ELSE LET S == PlacesWithin(d - 1) IN S \cup MountStep(S)

\* every place a class is mounted at: the class, the fragments from the root down to it,
\* the mount attributes taken and the classes passed
Places ==
    PlacesWithin(Len(classes))

\* the annotated methods of a verb, each at every place of its class
Occurrences(v) ==
    UNION {{[chain     |-> x.chain,
             handler   |-> x.handler,
             func_name |-> k,
             raw       |-> x.frags \o classes[x.handler].attrs[k].path]
            : k \in {j \in AttrsOfType(x.handler, "route") : classes[x.handler].attrs[j].verb = v}}
           : x \in Places}

\* s without its trailing slashes, and "/" when nothing is left
Canonical(s) ==
    LET keep == {i \in 1..Len(s) : s[i] # "/"}
        n == IF keep = {} THEN 0 ELSE CHOOSE i \in keep : \A j \in keep : j <= i
    IN  IF n = 0 THEN <<"/">> ELSE SubSeq(s, 1, n)

\* a >= b in the byte-wise order of strings
StrGeq(a, b) ==
    \E n \in 0..Len(b) :
        /\ n <= Len(a)
        /\ SubSeq(a, 1, n) = SubSeq(b, 1, n)
        /\ \/ n = Len(b)
           \/ n < Len(a) /\ Ord(a[n + 1]) > Ord(b[n + 1])

DuplicateRoutes ==
    \E v \in VerbSet : \E a, b \in Occurrences(v) :
        a # b /\ Canonical(a.raw) = Canonical(b.raw)

\* C1: setup() fails exactly when two annotated methods, of any classes and mounts, give
\* the same verb and normalized pattern, and a failed setup() leaves no routing table
C1_DuplicatesFailCompilation ==
    phase # "loading" =>
        /\ (phase = "failed") <=> DuplicateRoutes
        /\ phase = "failed" => routes = NoRoutes

\* a failed setup() whose two equal patterns come from different classes and differ
\* before normalization
C1_Witness ==
    /\ phase = "failed"
    /\ \E v \in VerbSet : \E a, b \in Occurrences(v) :
           /\ a.handler # b.handler
           /\ a.raw # b.raw
           /\ Canonical(a.raw) = Canonical(b.raw)

\* C2: every verb's list is in descending order of the pattern strings
C2_SortedDescending ==
    phase = "serving" =>
        \A v \in VerbSet : \A i \in 1..(Len(routes[v]) - 1) :
            StrGeq(routes[v][i].path, routes[v][i + 1].path)

\* a list in which the rule of a class mounted two levels down comes before the rule of
\* the root's first attribute, which the visit had put first
C2_Witness ==
    /\ phase = "serving"
    /\ \E v \in VerbSet : \E i \in 1..(Len(routes[v]) - 1) :
           /\ \E o \in Occurrences(v) :
                  /\ Len(o.chain) = 2
                  /\ routes[v][i] = Rule(Canonical(o.raw), o.handler, o.func_name)
           /\ routes[v][i + 1].handler = root
           /\ routes[v][i + 1].func_name = 1
           /\ routes[v][i].handler # root

\* C3: the rules of a verb are exactly its annotated methods at their places, each with
\* the pattern: mount fragments from the root down, then the local path, normalized
C3_PatternIsPrefixPlusLocal ==
    phase = "serving" =>
        \A v \in VerbSet :
            /\ {routes[v][i] : i \in 1..Len(routes[v])}
                   = {Rule(Canonical(o.raw), o.handler, o.func_name) : o \in Occurrences(v)}
            /\ Len(routes[v]) = Cardinality(Occurrences(v))

\* X mounted at /shop, Y at /shop/cart: /shop/cart/view comes before /shop/<item>
C3_Witness ==
    /\ phase = "serving"
    /\ \E i, j \in 1..Len(routes["get"]) :
           /\ i < j
           /\ routes["get"][i].path = P_shop \o P_cart \o P_view
           /\ routes["get"][j].path = P_shop \o P_item
           /\ routes["get"][i].handler # routes["get"][j].handler

\* C4: no pattern ends with a slash, but the pattern "/"
C4_NoTrailingSlash ==
    phase = "serving" =>
        \A v \in VerbSet : \A i \in 1..Len(routes[v]) :
            LET pattern == routes[v][i].path
            IN  /\ pattern # <<>>
                /\ pattern = <<"/">> \/ pattern[Len(pattern)] # "/"

\* a table with a rule whose prefix + local path ended with two slashes, and the rule
\* of an empty prefix + local path
C4_Witness ==
    /\ phase = "serving"
    /\ \E v \in VerbSet : \E o \in Occurrences(v) :
           Len(o.raw) > 2 /\ o.raw[Len(o.raw)] = "/" /\ o.raw[Len(o.raw) - 1] = "/"
    /\ \E v \in VerbSet : \E o \in Occurrences(v) : o.raw = <<>>

(***************************************************************************)
(* What the claims about dispatch speak of.                                *)
(***************************************************************************)
MaxSlashes == 2

EventsOf(c, ev) ==
    {n \in 1..Len(c.log) : c.log[n].ev = ev}

IsNormal(path) ==
    ~startswith(path, S_static) /\ ~startswith(path, S_plugin)

IsDebugger(c) ==
    DEBUG /\ uri_has_debugger(c)

Slashes(n) ==
    [k \in 1..n |-> "/"]

\* the rules of the request's verb that match its normalized path
Matching(c) ==
    {j \in 1..Len(routes[c.method]) :
        rule_match(routes[c.method][j], normalize_path(c.original_path)).ok}

\* what dispatching method and path selects: handler type, method, variable bindings
Selection(method, path) ==
    LET c == call([Idle EXCEPT !.pc = "running", !.method = method, !.path = path,
                               !.original_path = path, !.rw_DEBUG = DEBUG], "finish")
    IN  IF c.target.rule = 0 THEN [handler |-> 0, func_name |-> 0, arguments |-> {}]
        ELSE [handler |-> c.insts[c.target.inst].cls, func_name |-> c.target.func_name,
              arguments |-> c.target.arguments]

ParentOf(h) ==
    tsg[h].parent_handler

IsTerminal(h) ==
    ParentOf(h) = 0 \/ ParentOf(h) = h

\* the handler that moving to the logical parent ends at, 0 if it has not ended in fuel moves
RECURSIVE Climb(_, _)
Climb(h, fuel) ==
    IF IsTerminal(h) THEN h
    ELSE IF fuel = 0 THEN 0
    ELSE Climb(ParentOf(h), fuel - 1)

Max(S) ==
    CHOOSE n \in S : \A m \in S : m <= n

Min(S) ==
    CHOOSE n \in S : \A m \in S : n <= m

\* C5: a path of normal routing with one or more slashes appended selects what the path
\* selects, the empty path selects what "/" selects, and normalizing is idempotent
C5_CanonicalDispatch ==
    (phase = "serving" /\ \A r \in Requests : conn[r].pc = "idle") =>
        /\ \A m \in RequestMethods, p \in RequestPaths, n \in 1..MaxSlashes :
               IsNormal(p) => Selection(m, p \o Slashes(n)) = Selection(m, p)
        /\ \A m \in RequestMethods : Selection(m, <<>>) = Selection(m, <<"/">>)
        /\ \A p \in RequestPaths : normalize_path(normalize_path(p)) = normalize_path(p)

\* C6: of the rules of the verb that match the normalized path the first in table order
\* is selected; its handler type alone is instantiated and its method alone is invoked
C6_FirstMatch ==
    \A r \in Requests :
        LET c == conn[r]
            rules == routes[c.method]
            k == c.target.rule
        IN  /\ (c.pc # "idle" /\ IsNormal(c.original_path) /\ ~IsDebugger(c)
                    /\ Matching(c) # {}) => k = Min(Matching(c))
            /\ k # 0 =>
                /\ c.path = normalize_path(c.original_path)
                /\ k \in Matching(c)
                /\ \A j \in 1..(k - 1) : j \notin Matching(c)
                /\ Cardinality({n \in EventsOf(c, "init") : c.log[n].note = "route"}) = 1
                /\ \A n \in EventsOf(c, "init") :
                       c.log[n].note = "route" =>
                           c.log[n].cls = rules[k].handler /\ c.log[n].inst = c.target.inst
                /\ Cardinality(EventsOf(c, "invoke")) <= 1
                /\ \A n \in EventsOf(c, "invoke") :
                       /\ c.log[n].inst = c.target.inst
                       /\ c.log[n].cls = rules[k].handler
                       /\ c.log[n].func = rules[k].func_name

\* a request that two rules match, served by the method of the first
C6_Witness ==
    \E r \in Requests :
        /\ conn[r].pc = "done"
        /\ conn[r].target.rule # 0
        /\ \E j \in Matching(conn[r]) : j > conn[r].target.rule
        /\ EventsOf(conn[r], "invoke") # {}

\* C7: when no rule of the verb matches, a new instance of the root handler answers 404
\* by itself: no escalation, no pre_process, no method is called
C7_NotFoundByRoot ==
    \A r \in Requests :
        LET c == conn[r]
        IN  (c.pc = "done" /\ IsNormal(c.original_path) /\ ~IsDebugger(c)
                /\ Matching(c) = {}) =>
                /\ Len(c.insts) = 1
                /\ c.insts[1].cls = root
                /\ tsg[root].parent_handler = 0
                /\ Len(c.log) = 3
                /\ c.log[1].ev = "init" /\ c.log[1].cls = root /\ c.log[1].note = "not_found"
                /\ c.log[2].ev = "on_error" /\ c.log[2].inst = 1 /\ c.log[2].status = 404
                /\ c.log[3].ev = "finish" /\ c.log[3].inst = 1 /\ c.log[3].status = 404
                /\ EventsOf(c, "pre_process") = {}
                /\ EventsOf(c, "invoke") = {}
                /\ \A n \in EventsOf(c, "init") : c.log[n].note # "parent"

\* a request of normal routing that no rule matched has been answered
C7_Witness ==
    \E r \in Requests :
        /\ conn[r].pc = "done"
        /\ IsNormal(conn[r].original_path) /\ ~IsDebugger(conn[r])
        /\ Matching(conn[r]) = {}
        /\ \E n \in EventsOf(conn[r], "finish") : conn[r].log[n].status = 404

\* C8: when a method of P, whose logical parent Q has no logical parent, raises before P
\* has answered, an instance of Q writes the error response, P writes none, and the keys
\* P's scratch space held are keys of that instance of Q
C8_ParentRendersError ==
    \A r \in Requests :
        LET c == conn[r]
        IN  c.pc = "done" =>
                \A n \in EventsOf(c, "raise") :
                    LET P == c.log[n].cls
                        Q == ParentOf(P)
                    IN  (/\ Q # 0 /\ Q # P /\ ParentOf(Q) = 0
                         /\ \A m \in EventsOf(c, "finish") :
                                c.log[m].inst = c.log[n].inst => m > n) =>
                            /\ \E m \in EventsOf(c, "finish") :
                                   /\ m > n
                                   /\ c.log[m].cls = Q
                                   /\ c.log[m].note = "error"
                                   /\ c.log[n].keys \subseteq c.log[m].keys
                            /\ \A m \in EventsOf(c, "finish") : c.log[m].cls # P

C10_TargetAfterPreprocessing ==
    \A r \in Requests :
        LET c == conn[r]
        IN  \A n \in EventsOf(c, "invoke") :
                /\ \A k \in 1..Len(plugins) :
                       /\ \E m \in 1..(n - 1) :
                              /\ c.log[m].ev = "step"
                              /\ c.log[m].func = k
                              /\ c.log[m].note \in {"sync", "async"}
                       /\ plugins[k].key \in c.log[n].keys
                /\ \A f \in 1..Len(c.futures) : c.futures[f].state = "done"

\* a synchronous step and a Future, and two Futures done in the reverse of their order,
\* before the method was invoked
C10_Witness ==
    \E r \in Requests :
        LET c == conn[r]
        IN  /\ Len(plugins) = 2
            /\ \E n \in EventsOf(c, "invoke") : \E m1, m2 \in 1..(n - 1) :
                   /\ m1 < m2
                   /\ c.log[m1].ev = "step" /\ c.log[m2].ev = "step"
                   /\ c.log[m1].func = 2 /\ c.log[m2].func = 1
                   /\ c.log[m1].note = "async" /\ c.log[m2].note \in {"sync", "async"}
                   /\ c.log[m2].note = "async"

\* C11: a request that matched a rule has asked the plugin bus once, with the instance
\* made for the rule and before the method is invoked; no request asks it twice, and a
\* request that matched no rule does not ask it
C11_PreProcessOnce ==
    \A r \in Requests :
        LET c == conn[r]
            PP == EventsOf(c, "pre_process")
        IN  /\ Cardinality(PP) <= 1
            /\ c.target.rule # 0 =>
                   /\ Cardinality(PP) = 1
                   /\ \A n \in PP : c.log[n].inst = c.target.inst
                   /\ \A n \in PP : \A m \in EventsOf(c, "invoke") : n < m
            /\ c.target.rule = 0 => PP = {}

\* a request whose method raised and whose error climbed to a parent: one pre_process
C11_Witness ==
    \E r \in Requests :
        /\ conn[r].pc = "done"
        /\ EventsOf(conn[r], "invoke") # {}
        /\ Cardinality(EventsOf(conn[r], "on_error")) >= 2
        /\ Cardinality(EventsOf(conn[r], "pre_process")) = 1

\* the steps of the request's preprocessing that raised, or whose Future failed
FailedSteps(c) ==
    {n \in EventsOf(c, "step") : c.log[n].note \in {"raise", "failed"}}

\* C12: when a step of the preprocessing raised or a Future failed, the method is not
\* invoked and the error climbs from the request's handler to the handler without a
\* logical parent, which writes the error response
C12_PreprocessorFailureEscalates ==
    \A r \in Requests :
        LET c == conn[r]
        IN  (c.pc = "done" /\ FailedSteps(c) # {}) =>
                /\ EventsOf(c, "invoke") = {}
                /\ \E m \in EventsOf(c, "finish") :
                       /\ c.log[m].note = "error"
                       /\ c.log[m].cls = Climb(c.insts[c.target.inst].cls, Len(classes))
                /\ \A m \in EventsOf(c, "finish") : c.log[m].note = "error"

(***************************************************************************)
(* What the claims about static assets speak of.                           *)
(***************************************************************************)
\* the handlers reached from a queue of handlers, level by level, parents in declared order
RECURSIVE BreadthFirst(_, _)
BreadthFirst(queue, fuel) ==
    IF queue = <<>> \/ fuel = 0 THEN <<>>
    ELSE <<Head(queue)>> \o BreadthFirst(Tail(queue) \o static.parents[Head(queue)], fuel - 1)

\* the handler itself, then its ancestors breadth-first
ResolutionOrder(h) ==
    <<h>> \o BreadthFirst(static.parents[h], 2 * Cardinality(StaticHandlers))

\* what a handler provides of the asset by itself: its file, else its rendered template
OwnContent(h) ==
    IF static.assets[h].raw = "data" THEN <<"raw", h>>
    ELSE IF static.assets[h].tpl = "data" THEN <<"tpl", h>>
    ELSE <<>>

Providers(h) ==
    {n \in 1..Len(ResolutionOrder(h)) : OwnContent(ResolutionOrder(h)[n]) # <<>>}

Elements(seq) ==
    {seq[n] : n \in 1..Len(seq)}

\* C13: the content a request for the asset gets from handler A is A's file, else A's
\* rendered template, else that of the first ancestor in breadth-first order that has
\* one, and the handlers before it in that order have been asked
C13_BreadthFirstResolution ==
    (static.pc = "done" /\ static.op = "get" /\ Providers(static.handler) # {}) =>
        LET order == ResolutionOrder(static.handler)
            first == Min(Providers(static.handler))
        IN  /\ static.ok
            /\ static.data = OwnContent(order[first])
            /\ \A n \in 1..(first - 1) : order[n] \in Elements(static.seen)

\* C14: a reference to an asset that the handler and its ancestors do not have, or have
\* with empty content only, is built without failure and carries the version ERR
C14_MissingAssetGivesErrUrl ==
    (/\ static.pc = "done" /\ static.op = "url"
     /\ \A h \in StaticHandlers : OwnContent(h) = <<>>) =>
        /\ static.ok
        /\ Len(static.url) > 6
        /\ SubSeq(static.url, Len(static.url) - 5, Len(static.url))
               = <<"?", "v", "=", "E", "R", "R">>

\* position of the '?' of a url, 0 if it has none
QueryMark(url) ==
    IF \E n \in 1..Len(url) : url[n] = "?"
    THEN CHOOSE n \in 1..Len(url) : url[n] = "?" /\ \A m \in 1..(n - 1) : url[m] # "?"
    ELSE 0

\* C15: a reference that was built is /static/<module>/<relative path>?v=<token>, the
\* token being the first five digits of the content's hexadecimal hash when there is
\* content, and ERR when there is none
C15_StaticUrlFormat ==
    (static.pc = "done" /\ static.op = "url" /\ static.ok) =>
        LET url == static.url
            q == QueryMark(url)
            token == SubSeq(url, q + 3, Len(url))
            named == colon(static.fname) # 0
            module == IF named THEN SubSeq(static.fname, 1, colon(static.fname) - 1)
                      ELSE module_name(static.handler)
            path == IF named
                    THEN SubSeq(static.fname, colon(static.fname) + 1, Len(static.fname))
                    ELSE static.fname
        IN  /\ q # 0
            /\ SubSeq(url, 1, q - 1) = <<"/", "s", "t", "a", "t", "i", "c", "/">> \o module
                                           \o <<"/">> \o path
            /\ SubSeq(url, q, q + 2) = <<"?", "v", "=">>
            /\ IF truthy(static)
               THEN /\ Len(token) = 5
                    /\ \A n \in 1..5 : token[n] = md5_hexdigest(static.data)[n]
                    /\ \A n \in 1..5 : \E d \in 1..16 : token[n] = HexDigits[d]
               ELSE token = <<"E", "R", "R">>

\* a reference into another module's assets, built with the hash of content found there
C15_Witness ==
    /\ static.pc = "done" /\ static.op = "url" /\ static.ok
    /\ colon(static.fname) # 0
    /\ static.md5sum # <<>>
    /\ Len(static.url) = Len(<<"/", "s", "t", "a", "t", "i", "c", "/">>) + 2 + 1 + 4 + 3 + 5

\* C16: no rule of the compiled table has a pattern under /static/ or /_p/
C16_NoReservedRoutes ==
    phase = "serving" =>
        \A v \in VerbSet : \A i \in 1..Len(routes[v]) :
            /\ ~startswith(routes[v][i].path, S_static)
            /\ ~startswith(routes[v][i].path, S_plugin)

\* the three special forms of a request, decided on the path as it arrived
IsStaticForm(path) ==
    /\ startswith(path, S_static)
    /\ contains(strip(slice_from(path, 8)), <<"/">>)
    /\ split1(strip(slice_from(path, 8)))[1] \in sys_modules

IsPluginForm(path) ==
    /\ startswith(path, S_plugin)
    /\ contains(slice_from(path, 4), <<"/">>)
    /\ split1(slice_from(path, 4))[1] \in PLUGS

FormOf(c) ==
    IF IsDebugger(c) THEN "debugger"
    ELSE IF IsStaticForm(c.original_path) THEN "static"
    ELSE IF IsPluginForm(c.original_path) THEN "plugin"
    ELSE "normal"

\* C17: a request is handled by the first of debugger, static resolver and plugin
\* handler whose form it has, and by nothing after it; a request of none of the forms
\* is routed against the table
C17_SpecialPathsThenNormalRouting ==
    \A r \in Requests :
        LET c == conn[r]
            routed == {n \in EventsOf(c, "init") : c.log[n].note = "route"}
        IN  c.pc \in {"waiting", "done"} =>
                /\ FormOf(c) = "debugger" =>
                       /\ EventsOf(c, "debugger") # {}
                       /\ EventsOf(c, "static") = {} /\ EventsOf(c, "plugin") = {}
                       /\ routed = {}
                /\ FormOf(c) = "static" =>
                       /\ EventsOf(c, "static") # {}
                       /\ EventsOf(c, "debugger") = {} /\ EventsOf(c, "plugin") = {}
                       /\ routed = {}
                /\ FormOf(c) = "plugin" =>
                       /\ EventsOf(c, "plugin") # {}
                       /\ EventsOf(c, "debugger") = {} /\ EventsOf(c, "static") = {}
                       /\ routed = {}
                /\ FormOf(c) = "normal" =>
                       /\ EventsOf(c, "debugger") = {}
                       /\ EventsOf(c, "static") = {} /\ EventsOf(c, "plugin") = {}
                       /\ Matching(c) # {} =>
                              routed # {} /\ c.target.rule = Min(Matching(c))
                       /\ Matching(c) = {} =>
                              \E n \in EventsOf(c, "finish") : c.log[n].status = 404

\* the handling of exception exc raised by a method of a new instance of class P, with
\* rw.DEBUG = debug
Raised(P, exc, debug) ==
    handle_exception(new_handler([Idle EXCEPT !.pc = "running", !.rw_DEBUG = debug], P,
                                 "route"), 1, exc)

\* the handler types the handling went through, the first being the one that raised
Visited(c) ==
    [n \in 1..Len(c.insts) |-> c.insts[n].cls]

\* the handler types that wrote a response
Responders(c) ==
    {c.log[n].cls : n \in EventsOf(c, "finish")}

\* C18: for every handler of the tree and every exception, debug mode and production
\* mode go through the same handlers and the same handler writes the response
C18_SameEscalationInBothModes ==
    (phase = "serving" /\ \A r \in Requests : conn[r].pc = "idle") =>
        \A P \in 1..Len(classes), exc \in {"HTTPError", "Exception"} :
            /\ Visited(Raised(P, exc, TRUE)) = Visited(Raised(P, exc, FALSE))
            /\ Responders(Raised(P, exc, TRUE)) = Responders(Raised(P, exc, FALSE))

\* C19: a step of one request leaves every other request as it is, scratch spaces
\* included; a request that is matched gets instances made in that step, the one the
\* method is called on among them
C19_RequestsIsolated ==
    [][\A r \in Requests :
           conn'[r] # conn[r] =>
               /\ \A q \in Requests \ {r} : conn'[q] = conn[q]
               /\ (conn[r].pc = "idle" /\ conn'[r].target.rule # 0) =>
                      /\ conn[r].insts = <<>>
                      /\ conn'[r].target.inst \in 1..Len(conn'[r].insts)
                      /\ conn'[r].insts[conn'[r].target.inst].cls
                             = routes[conn'[r].method][conn'[r].target.rule].handler]_vars

\* two requests in flight on the same handler type; one has the entry of its Future and
\* has climbed to its parent on an error, the other still waits without the entry
C19_Witness ==
    \E r, q \in Requests :
        /\ r # q
        /\ conn[r].pc = "done" /\ conn[q].pc = "waiting"
        /\ Len(conn[r].insts) >= 2 /\ Len(conn[q].insts) >= 1
        /\ conn[r].insts[1].cls = conn[q].insts[1].cls
        /\ "user" \in DOMAIN conn[r].insts[Len(conn[r].insts)].scratch
        /\ "user" \notin DOMAIN conn[q].insts[1].scratch

\* the classes that mount class h
Mounters(h) ==
    {m \in 1..Len(classes) :
        \E k \in 1..Len(classes[m].attrs) :
            classes[m].attrs[k].type = "mount" /\ classes[m].attrs[k].mod = h}

\* the nearest page handler (RequestHandler) above h in the mount tree, 0 if there is
\* none; every class of the shop has at most one mounter
RECURSIVE NearestPage(_)
NearestPage(h) ==
    IF Mounters(h) = {} THEN 0
    ELSE LET m == CHOOSE x \in Mounters(h) : TRUE
         IN  IF classes[m].kind = "RequestHandler" THEN m ELSE NearestPage(m)

\* C20: the parent_handler the compilation records for a handler is the nearest page
\* handler above it in the mount tree, and the root has none
C20_ParentIsNearestPageHandler ==
    phase = "serving" =>
        /\ ParentOf(root) = 0
        /\ \A h \in 1..Len(classes) : ParentOf(h) = NearestPage(h)

\* the instances of a request that were made as the parent of the instance before them
ParentInstances(c) ==
    {c.log[n].inst : n \in {m \in EventsOf(c, "init") : c.log[m].note = "parent"}}

\* C21: a parent instance made by an escalation step holds its own entries with its own
\* values, and of the child's entries those with other keys, with the child's values,
\* and nothing else
C21_ScratchTransfer ==
    \A r \in Requests :
        LET c == conn[r]
        IN  \A j \in ParentInstances(c) :
                LET own == handler_init(c.insts[j].cls, j)
                    parent == c.insts[j].scratch
                    child == c.insts[j - 1].scratch
                IN  /\ j > 1
                    /\ ~c.insts[j - 1].finished
                    /\ (c.rw_DEBUG \/ ~c.insts[j].finished) =>
                           /\ DOMAIN parent = (DOMAIN own) \cup (DOMAIN child)
                           /\ \A k \in DOMAIN own : parent[k] = own[k]
                           /\ \A k \in (DOMAIN child) \ (DOMAIN own) : parent[k] = child[k]

\* an escalation whose child held an entry written by a plugin: the parent instance has
\* it, next to its own handler and parent_handler entries
C21_Witness ==
    \E r \in Requests :
        /\ conn[r].pc = "done"
        /\ 2 \in ParentInstances(conn[r])
        /\ "email" \in DOMAIN conn[r].insts[1].scratch
        /\ "email" \in DOMAIN conn[r].insts[2].scratch
        /\ conn[r].insts[2].scratch["handler"] = <<"instance", 2>>
        /\ conn[r].insts[1].scratch["handler"] = <<"instance", 1>>
        /\ conn[r].insts[2].scratch["parent_handler"] # conn[r].insts[1].scratch["parent_handler"]

\* the handler itself and its ancestors
Ancestry(h) ==
    Elements(ResolutionOrder(h))

\* the handler at which a call of static(name) or a request for the asset starts
StartOf(name, h) ==
    IF colon(name) # 0 THEN Mains[SubSeq(name, 1, colon(name) - 1)] ELSE h

C23_ScratchEmptyAfterFinish ==
    \A r \in Requests : \A i \in 1..Len(conn[r].insts) :
        conn[r].insts[i].finished => DOMAIN conn[r].insts[i].scratch = {}

\* C24: a request is dispatched only when setup() has built the table; the table then has
\* a rule for every annotated method at every place of its class, each of a class that is
\* reached from the root through mounts; and no step taken while requests are served
\* changes any verb's list
C24_RouteTableFixed ==
    /\ [](\A r \in Requests : conn[r].pc # "idle" => phase = "serving")
    /\ [](phase = "serving" =>
              \A v \in VerbSet :
                  /\ Len(routes[v]) = Cardinality(Occurrences(v))
                  /\ \A i \in 1..Len(routes[v]) :
                         routes[v][i].handler \in {x.handler : x \in Places})
    /\ [][phase = "serving" => (routes' = routes /\ phase' = "serving")]_vars

\* a request that matched a rule of a mounted class and failed has been handled, and
\* the table still has its rules
C24_Witness ==
    /\ phase = "serving"
    /\ conn[1].pc = "done"
    /\ conn[1].target.rule # 0
    /\ \E n \in 1..Len(conn[1].log) : conn[1].log[n].ev = "raise"
    /\ \E i \in 1..Len(routes["get"]) : routes["get"][i].handler # root

\* the events of a request in which a handler was run for it: the debugger, a static file
\* handler, a plugin's handler, or an instance made for a matched rule
HandlerRuns(c) ==
    {n \in 1..Len(c.log) :
        \/ c.log[n].ev \in {"debugger", "static", "plugin"}
        \/ c.log[n].ev = "init" /\ c.log[n].note = "route"}

\* the 404 answers through an instance of the root made because nothing was found
Fallbacks(c) ==
    {n \in 1..Len(c.log) : c.log[n].ev = "init" /\ c.log[n].note = "not_found"}

\* C25: the root's 404 is given only to a request for which no debugger, static file
\* handler, plugin handler or routed handler was run, so that a request has one answer
\* at most
C25_AtMostOneResponse ==
    \A r \in Requests :
        /\ Cardinality(HandlerRuns(conn[r])) + Cardinality(Fallbacks(conn[r])) <= 1
        /\ Cardinality(EventsOf(conn[r], "finish")) <= 1

\* the verb a rule's method was annotated for
VerbOf(rule) ==
    classes[rule.handler].attrs[rule.func_name].verb

\* C26: the table has the lists get, post, put and delete and no other; a verb's list has
\* exactly the rules of the methods annotated for that verb, one for each place of the
\* method's class; and the method a request is dispatched to is annotated for the
\* request's verb
C26_RoutesByVerb ==
    phase = "serving" =>
        /\ DOMAIN routes = {"get", "post", "put", "delete"}
        /\ \A v \in DOMAIN routes :
               /\ \A i \in 1..Len(routes[v]) :
                      /\ classes[routes[v][i].handler].attrs[routes[v][i].func_name].type = "route"
                      /\ VerbOf(routes[v][i]) = v
               /\ \A o \in Occurrences(v) :
                      /\ \E i \in 1..Len(routes[v]) :
                             routes[v][i].handler = o.handler /\ routes[v][i].func_name = o.func_name
                      /\ \A w \in DOMAIN routes \ {v} : \A i \in 1..Len(routes[w]) :
                             ~(routes[w][i].handler = o.handler
                               /\ routes[w][i].func_name = o.func_name)
        /\ \A r \in Requests :
               conn[r].target.rule # 0 =>
                   classes[conn[r].insts[conn[r].target.inst].cls]
                       .attrs[conn[r].target.func_name].verb = conn[r].method

\* a POST request was dispatched to the post method of a class that has a get method too,
\* and a GET request for the same path would have matched no rule
C26_Witness ==
    /\ phase = "serving"
    /\ conn[1].pc = "done"
    /\ conn[1].method = "post"
    /\ conn[1].target.rule # 0
    /\ \E k \in 1..Len(classes[conn[1].insts[conn[1].target.inst].cls].attrs) :
           classes[conn[1].insts[conn[1].target.inst].cls].attrs[k] = get(P_empty)
    /\ scan_rules(routes["get"], conn[1].path, 1) = 0
    /\ routes["put"] = <<>> /\ routes["delete"] = <<>>

\* C27: a GET request that reaches a module's static file handler with '..' in the path
\* that follows /static/<module>/ is answered with 403 and with nothing else: get_content
\* is not called for it and no content is written
C27_DotDotRejectedBeforeLookup ==
    \A r \in Requests :
        LET c == conn[r]
        IN  (/\ c.pc # "idle"
             /\ c.method = "get"
             /\ ~(c.rw_DEBUG /\ uri_has_debugger(c))
             /\ IsStaticForm(c.original_path)
             /\ contains(split1(strip(slice_from(c.original_path, 8)))[2], <<".", ".">>)) =>
                /\ \E n \in EventsOf(c, "static") : c.log[n].status = 403
                /\ \A n \in EventsOf(c, "static") : c.log[n].status = 403
                /\ EventsOf(c, "get_content") = {}
                /\ EventsOf(c, "write") = {}
                /\ EventsOf(c, "finish") = {}

\* the request /static/m/../x has been answered with 403 by the static file handler of m
C27_Witness ==
    /\ conn[1].pc = "done"
    /\ conn[1].method = "get"
    /\ conn[1].original_path = Q_static_m_dots
    /\ \E n \in EventsOf(conn[1], "static") : conn[1].log[n].status = 403

====
